---- MODULE Spec2Model ----
(***************************************************************************)
(* Model of the avenor trading backend: the Trade Store helpers            *)
(* (common/database.py), the Execution Service (execution/service.py),     *)
(* the Strategy Engine (strategy/service.py) and the Health Monitor        *)
(* (deploy/healthcheck.py).                                                *)
(*                                                                         *)
(* Three specifications share the module:                                  *)
(*   Spec          the Execution Service and the trades table              *)
(*   StrategySpec  the Strategy Engine's control loop                      *)
(*   MonitorSpec   the Health Monitor's control loop                       *)
(***************************************************************************)
EXTENDS Integers, Sequences, FiniteSets, TLC

VARIABLES
    trades,          \* the rows of table `trades`, in insertion order
    exec_pc,         \* position of the Execution Service process
    pending_trades,  \* recover_pending_trades: rows fetched and not yet updated
    trade_order,     \* main: the order being processed
    confirmations,   \* TRADE_CONFIRMATION messages published so far
    deliveries,      \* number of order messages received so far
    db_call,         \* the last Trade Store call of the running code and its outcome
    startup_fault,   \* a store operation failed during this instance's startup
    recovery_start,  \* the table as it was when the running recovery started
    interrupted,     \* keys whose processing ended between insert and publish
    now,             \* time.time(), in seconds
    ticks,           \* number of times the clock has advanced
    pending_orders,  \* Strategy Engine: idempotency_key -> sent_at
    published,       \* Strategy Engine: keys of the orders published, in order
    order_alerts,    \* Strategy Engine: idempotency_key -> timeout alerts logged
    confirmed,       \* Strategy Engine: keys removed by a matching confirmation
    strategy_received,   \* Strategy Engine: the message the last iteration received
    confirmations_read,  \* Strategy Engine: confirmations taken from the bus so far
    order_sent,          \* Strategy Engine: the payload of the order published last
    last_seen,       \* Health Monitor: service -> last-seen time
    stale_alerts,    \* Health Monitor: alerts logged, as <<service, time>>, in order
    heartbeat_from,  \* Health Monitor: service named by the heartbeat just processed
    heard_at,        \* Health Monitor: service -> time of its last heartbeat, or of startup
    relay_up,        \* Bus Relay: the process is in its loop, both sockets bound
    sent,            \* publisher -> the messages it has sent to the relay, in order
    pipe,            \* Bus Relay: publisher -> messages queued at the frontend socket
    sub_frames,      \* Bus Relay: subscription frames queued at the backend socket
    upstream,        \* topic filters the frontend socket has passed to the publishers
    connected,       \* subscribers whose filters the backend socket holds
    received,        \* subscriber -> the messages it has received, in order
    last_forwarded,  \* Bus Relay: the message it sent on the backend socket last
    svc_pc,          \* process -> position of its main()
    svc_sockets,     \* process -> the bus sockets it has created and not closed
    svc_signalled,   \* process -> SIGTERM or SIGINT was delivered to this instance
    call_pc,         \* caller -> position of its record_trade call
    call_key,        \* caller -> idempotency_key of the order it is inserting
    call_ret,        \* caller -> what its last record_trade call returned
    inserts,         \* idempotency_key -> number of record_trade calls that returned True
    raced            \* keys that two calls open at the same time have carried

exec_vars == <<trades, exec_pc, pending_trades, trade_order, confirmations,
               deliveries, db_call, startup_fault, recovery_start, interrupted>>
clock_vars == <<now, ticks>>
strategy_vars == <<pending_orders, published, order_alerts, confirmed,
                   strategy_received, confirmations_read, order_sent>>
monitor_vars == <<last_seen, stale_alerts, heartbeat_from, heard_at>>
relay_vars == <<relay_up, sent, pipe, sub_frames, upstream, connected, received,
                last_forwarded>>
process_vars == <<svc_pc, svc_sockets, svc_signalled>>
store_vars == <<call_pc, call_key, call_ret, inserts, raced>>
vars == <<exec_vars, clock_vars, strategy_vars, monitor_vars, relay_vars,
          process_vars, store_vars>>
\* what a step of the Execution Service leaves alone
not_exec_vars == <<clock_vars, strategy_vars, monitor_vars, relay_vars,
                   process_vars, store_vars>>

---------------------------------------------------------------------------
(* Bounds of the model *)

\* number of distinct idempotency keys that order messages carry
MaxKeys == 2
\* number of order messages delivered to the Execution Service
MaxDeliveries == 3
\* number of times the clock advances
MaxTicks == 4
\* number of orders the Strategy Engine publishes
MaxOrders == 2
\* number of messages the publishers send to the relay
MaxMessages == 3

Keys == 1..MaxKeys
Symbols == {"TLT", "IEF"}
PayloadStatuses == {"NEW", "FILLED"}

---------------------------------------------------------------------------
(* Trade Store: common/database.py *)

required_keys == {"idempotency_key", "symbol", "trade_type", "quantity", "status"}

\* the order payload the Strategy Engine builds
TradeOrder(key, symbol, status) ==
    [f \in required_keys |->
        CASE f = "idempotency_key" -> key
          [] f = "symbol"          -> symbol
          [] f = "trade_type"      -> "BUY_TO_OPEN"
          [] f = "quantity"        -> 100
          [] f = "status"          -> status]

\* a payload with some fields absent
Without(payload, missing) == [f \in (DOMAIN payload) \ missing |-> payload[f]]

MissingFields == {{}, {"idempotency_key"}, {"quantity"}, {"status"}}

\* the order messages that can arrive on TRADE_ORDER.
Orders ==
    {Without(TradeOrder(k, s, st), m) :
        k \in Keys, s \in Symbols, st \in PayloadStatuses, m \in MissingFields}

\* a mutation of the assignment below: a status the payload carries is kept
SetStatus_keep(payload, value) ==
    IF "status" \in DOMAIN payload
    THEN payload
    ELSE [f \in (DOMAIN payload) \cup {"status"} |->
            IF f = "status" THEN value ELSE payload[f]]

\* trade_order['status'] = value
SetStatus(payload, value) ==
    [f \in (DOMAIN payload) \cup {"status"} |->
        IF f = "status" THEN value ELSE payload[f]]

\* the row INSERT writes (id and timestamp_utc are assigned by the store and
\* read by nothing in the services)
Row(trade_data) ==
    [idempotency_key |-> trade_data["idempotency_key"],
     symbol          |-> trade_data["symbol"],
     trade_type      |-> trade_data["trade_type"],
     quantity        |-> trade_data["quantity"],
     status          |-> trade_data["status"]]

\* the UNIQUE constraint on idempotency_key: the INSERT of key is rejected
UniqueViolation(db, key) == \E i \in 1..Len(db) : db[i].idempotency_key = key

\* a mutation of record_trade: the table has no UNIQUE constraint
record_trade_no_unique(trade_data, db, fault) ==
    IF ~(required_keys \subseteq DOMAIN trade_data)
    THEN [ret |-> "False", db |-> db]
    ELSE IF fault
    THEN [ret |-> "raise", db |-> db]
    ELSE [ret |-> "True", db |-> Append(db, Row(trade_data))]

\* a mutation of record_trade: UniqueViolation is not caught
record_trade_dup_raises(trade_data, db, fault) ==
    IF ~(required_keys \subseteq DOMAIN trade_data)
    THEN [ret |-> "False", db |-> db]
    ELSE IF fault \/ UniqueViolation(db, trade_data["idempotency_key"])
    THEN [ret |-> "raise", db |-> db]
    ELSE [ret |-> "True", db |-> Append(db, Row(trade_data))]

\* a mutation of record_trade: a rejected INSERT is reported as recorded
record_trade_dup_true(trade_data, db, fault) ==
    IF ~(required_keys \subseteq DOMAIN trade_data)
    THEN [ret |-> "False", db |-> db]
    ELSE IF fault
    THEN [ret |-> "raise", db |-> db]
    ELSE IF UniqueViolation(db, trade_data["idempotency_key"])
    THEN [ret |-> "True", db |-> db]
    ELSE [ret |-> "True", db |-> Append(db, Row(trade_data))]

\* record_trade: ret is what the caller sees ("True", "False" or "raise"),
\* db the table afterwards.  fault: the connection or the statement fails
\* with an error other than UniqueViolation.
record_trade(trade_data, db, fault) ==
    IF ~(required_keys \subseteq DOMAIN trade_data)
    THEN [ret |-> "False", db |-> db]
    ELSE IF fault
    THEN [ret |-> "raise", db |-> db]
    ELSE IF UniqueViolation(db, trade_data["idempotency_key"])
    THEN [ret |-> "False", db |-> db]
    ELSE [ret |-> "True", db |-> Append(db, Row(trade_data))]

\* a mutation of update_trade_status: the UPDATE matches no row
update_trade_status_no_row(idempotency_key, new_status, db, fault) ==
    IF fault
    THEN [ret |-> "raise", db |-> db]
    ELSE [ret |-> "False", db |-> db]

\* a mutation of update_trade_status: the UPDATE is committed before the
\* error is raised
update_trade_status_fault_commits(idempotency_key, new_status, db, fault) ==
    [ret |-> IF fault THEN "raise"
             ELSE IF \E i \in 1..Len(db) : db[i].idempotency_key = idempotency_key
             THEN "True" ELSE "False",
     db  |-> [i \in 1..Len(db) |->
                 IF db[i].idempotency_key = idempotency_key
                 THEN [db[i] EXCEPT !.status = new_status]
                 ELSE db[i]]]

\* a mutation of update_trade_status: the UPDATE has no WHERE clause
update_trade_status_all_rows(idempotency_key, new_status, db, fault) ==
    IF fault
    THEN [ret |-> "raise", db |-> db]
    ELSE [ret |-> IF \E i \in 1..Len(db) : db[i].idempotency_key = idempotency_key
                  THEN "True" ELSE "False",
          db  |-> [i \in 1..Len(db) |-> [db[i] EXCEPT !.status = new_status]]]

\* update_trade_status: UPDATE trades SET status = new_status WHERE
\* idempotency_key = idempotency_key
update_trade_status(idempotency_key, new_status, db, fault) ==
    IF fault
    THEN [ret |-> "raise", db |-> db]
    ELSE [ret |-> IF \E i \in 1..Len(db) : db[i].idempotency_key = idempotency_key
                  THEN "True" ELSE "False",
          db  |-> [i \in 1..Len(db) |->
                      IF db[i].idempotency_key = idempotency_key
                      THEN [db[i] EXCEPT !.status = new_status]
                      ELSE db[i]]]

IsPending(row) == row.status = "PENDING"
AnyRow(row) == TRUE

\* a mutation of get_pending_trades: the SELECT has no WHERE clause
get_pending_trades_all(db, fault) ==
    IF fault
    THEN [is_none |-> TRUE, rows |-> <<>>]
    ELSE [is_none |-> FALSE, rows |-> SelectSeq(db, AnyRow)]

\* get_pending_trades: the PENDING rows, or None when the query fails
get_pending_trades(db, fault) ==
    IF fault
    THEN [is_none |-> TRUE, rows |-> <<>>]
    ELSE [is_none |-> FALSE, rows |-> SelectSeq(db, IsPending)]

---------------------------------------------------------------------------
(* Execution Service: execution/service.py *)

\* trade_order before the first message is received
NoOrder == [unbound |-> TRUE]
NoCall == [op |-> "none", msg |-> NoOrder, arg |-> NoOrder, ret |-> "none",
           fault |-> FALSE]

\* the positions at which the process is inside `while True`
LoopPcs == {"loop", "broker", "publish"}

\* the process has ended: locals are gone
ExecStopped ==
    /\ exec_pc' = "stopped"
    /\ pending_trades' = <<>>
    /\ trade_order' = NoOrder
    /\ recovery_start' = <<>>
    /\ interrupted' = IF exec_pc \in {"broker", "publish"}
                      THEN interrupted \cup {trade_order["idempotency_key"]}
                      ELSE interrupted

\* a mutation of ExecStart: main goes to its message loop without recovery
ExecStart_no_recovery(fault) ==
    /\ exec_pc = "stopped"
    /\ startup_fault' = fault
    /\ db_call' = [op |-> "initialize_database", msg |-> NoOrder, arg |-> NoOrder,
                   ret |-> IF fault THEN "raise" ELSE "None", fault |-> fault]
    /\ exec_pc' = IF fault THEN "stopped" ELSE "loop"
    /\ UNCHANGED <<trades, pending_trades, trade_order, confirmations,
                   deliveries, recovery_start, interrupted>>
    /\ UNCHANGED not_exec_vars

\* main, up to and including initialize_database(): CREATE TABLE IF NOT EXISTS
\* leaves the rows alone; a failure is raised and main returns
ExecStart(fault) ==
    /\ exec_pc = "stopped"
    /\ startup_fault' = fault
    /\ db_call' = [op |-> "initialize_database", msg |-> NoOrder, arg |-> NoOrder,
                   ret |-> IF fault THEN "raise" ELSE "None", fault |-> fault]
    /\ exec_pc' = IF fault THEN "stopped" ELSE "recover"
    /\ UNCHANGED <<trades, pending_trades, trade_order, confirmations,
                   deliveries, recovery_start, interrupted>>
    /\ UNCHANGED not_exec_vars

\* recover_pending_trades, up to the loop over the fetched rows; when nothing
\* is to be updated main goes on to its message loop
RecoverQuery(fault) ==
    /\ exec_pc = "recover"
    /\ LET fetched == get_pending_trades(trades, fault) IN
        /\ db_call' = [op |-> "get_pending_trades", msg |-> NoOrder, arg |-> NoOrder,
                       ret |-> IF fetched.is_none THEN "None" ELSE "rows",
                       fault |-> fault]
        /\ startup_fault' = (startup_fault \/ fault)
        /\ pending_trades' = fetched.rows
        /\ exec_pc' = IF fetched.is_none \/ fetched.rows = <<>>
                      THEN "loop" ELSE "recovering"
    /\ recovery_start' = trades
    /\ UNCHANGED <<trades, trade_order, confirmations, deliveries, interrupted>>
    /\ UNCHANGED not_exec_vars

\* one iteration of `for trade in pending_trades`; a failure of
\* update_trade_status is raised to main, which returns
RecoverUpdate(fault) ==
    /\ exec_pc = "recovering"
    /\ pending_trades # <<>>
    /\ LET trade == Head(pending_trades)
           r == update_trade_status(trade.idempotency_key, "FAILED_RECOVERED",
                                    trades, fault) IN
        /\ trades' = r.db
        /\ db_call' = [op |-> "update_trade_status", msg |-> NoOrder,
                       arg |-> NoOrder, ret |-> r.ret, fault |-> fault]
        /\ startup_fault' = (startup_fault \/ fault)
        /\ IF r.ret = "raise"
           THEN ExecStopped
           ELSE /\ pending_trades' = Tail(pending_trades)
                /\ exec_pc' = IF Tail(pending_trades) = <<>>
                              THEN "loop" ELSE "recovering"
                /\ UNCHANGED <<trade_order, recovery_start, interrupted>>
    /\ UNCHANGED <<confirmations, deliveries>>
    /\ UNCHANGED not_exec_vars

\* the message loop receives an order: status is set to PENDING and the order
\* is inserted.  A rejected insert is logged with the order's key (a KeyError
\* when the payload has none); any exception ends the loop.
ExecReceive(order, fault) ==
    /\ exec_pc = "loop"
    /\ deliveries < MaxDeliveries
    /\ deliveries' = deliveries + 1
    /\ LET data == SetStatus(order, "PENDING")
           r == record_trade(data, trades, fault) IN
        /\ trades' = r.db
        /\ db_call' = [op |-> "record_trade", msg |-> order, arg |-> data,
                       ret |-> r.ret, fault |-> fault]
        /\ IF r.ret = "True"
           THEN /\ exec_pc' = "broker"
                /\ trade_order' = data
                /\ UNCHANGED <<pending_trades, recovery_start, interrupted>>
           ELSE IF r.ret = "False" /\ "idempotency_key" \in DOMAIN data
           THEN /\ exec_pc' = "loop"
                /\ trade_order' = data
                /\ UNCHANGED <<pending_trades, recovery_start, interrupted>>
           ELSE ExecStopped
    /\ UNCHANGED <<confirmations, startup_fault>>
    /\ UNCHANGED not_exec_vars

\* the broker's answer; the reference broker always fills
final_status == "FILLED"

\* after the simulated broker call: the record gets the final status
ExecUpdate(fault) ==
    /\ exec_pc = "broker"
    /\ LET r == update_trade_status(trade_order["idempotency_key"], final_status,
                                    trades, fault) IN
        /\ trades' = r.db
        /\ db_call' = [op |-> "update_trade_status", msg |-> NoOrder,
                       arg |-> trade_order, ret |-> r.ret, fault |-> fault]
        /\ IF r.ret = "raise"
           THEN ExecStopped
           ELSE /\ exec_pc' = "publish"
                /\ UNCHANGED <<pending_trades, trade_order, recovery_start,
                               interrupted>>
    /\ UNCHANGED <<confirmations, deliveries, startup_fault>>
    /\ UNCHANGED not_exec_vars

\* a mutation of ExecPublish: the loop goes on without sending
ExecPublish_skipped ==
    /\ exec_pc = "publish"
    /\ exec_pc' = "loop"
    /\ UNCHANGED <<trades, pending_trades, trade_order, confirmations,
                   deliveries, db_call, startup_fault, recovery_start, interrupted>>
    /\ UNCHANGED not_exec_vars

\* the confirmation is sent to the bus
ExecPublish ==
    /\ exec_pc = "publish"
    /\ confirmations' = Append(confirmations,
            [idempotency_key |-> trade_order["idempotency_key"],
             status          |-> final_status])
    /\ exec_pc' = "loop"
    /\ UNCHANGED <<trades, pending_trades, trade_order, deliveries, db_call,
                   startup_fault, recovery_start, interrupted>>
    /\ UNCHANGED not_exec_vars

\* the process ends at any point: a termination signal, a kill, a power loss
ExecCrash ==
    /\ exec_pc # "stopped"
    /\ ExecStopped
    /\ UNCHANGED <<trades, confirmations, deliveries, db_call, startup_fault>>
    /\ UNCHANGED not_exec_vars

ExecNext ==
    \/ \E fault \in BOOLEAN : ExecStart(fault)
    \/ \E fault \in BOOLEAN : RecoverQuery(fault)
    \/ \E fault \in BOOLEAN : RecoverUpdate(fault)
    \/ \E order \in Orders, fault \in BOOLEAN : ExecReceive(order, fault)
    \/ \E fault \in BOOLEAN : ExecUpdate(fault)
    \/ ExecPublish
    \/ ExecCrash

---------------------------------------------------------------------------
(* The clock *)

\* time.time() read after `delay` more seconds have passed
Advance(delay) ==
    /\ ticks + (IF delay > 0 THEN 1 ELSE 0) <= MaxTicks
    /\ now' = now + delay
    /\ ticks' = ticks + (IF delay > 0 THEN 1 ELSE 0)

---------------------------------------------------------------------------
(* Strategy Engine: strategy/service.py *)

ORDER_TIMEOUT_S == 300

\* the decision threshold 95.30; prices are in hundredths
PriceThreshold == 9530
Prices == {9500, 9530, 9550}

\* time that passes in one iteration of the loop (poll and processing)
StrategyDelays == {0, 1, ORDER_TIMEOUT_S}

\* pending_orders = {}
NoPendingOrders == [k \in {} |-> 0]

not_strategy_vars == <<exec_vars, monitor_vars, relay_vars, process_vars, store_vars>>

\* a mutation of NewKey: the key of the first order is used again
NewKey_reused == IF published = <<>> THEN 1 ELSE published[1]

\* str(uuid.uuid4()): a key no earlier order carries
NewKey == Len(published) + 1

\* the keys a received confirmation can carry: 0 is a key this engine never
\* issued, the others are keys of orders it has published
ConfirmationKeys == 0..MaxOrders

\* a mutation of on_confirmation: the map is emptied
on_confirmation_clears(orders, key) ==
    [matched        |-> key \in DOMAIN orders,
     pending_orders |-> IF key \in DOMAIN orders THEN NoPendingOrders ELSE orders]

\* a mutation of on_confirmation: a matched entry is left in the map
on_confirmation_ignores(orders, key) ==
    [matched        |-> FALSE,
     pending_orders |-> orders]

\* the confirmation branch: key = data.get('idempotency_key'); a key that is
\* in the map is deleted from it, any other key is logged and ignored
on_confirmation(orders, key) ==
    [matched        |-> key \in DOMAIN orders,
     pending_orders |-> [k \in (DOMAIN orders) \ {key} |-> orders[k]]]

\* no message: the poll timed out
NoMessage == [topic |-> "none", value |-> 0]

\* a mutation of timeout_sweep: the timed-out entries are not deleted
timeout_sweep_keep(orders, t) ==
    [keys_to_remove |-> {k \in DOMAIN orders : t - orders[k] > ORDER_TIMEOUT_S},
     pending_orders |-> orders]

\* the check for timed-out orders at the end of every iteration
timeout_sweep(orders, t) ==
    LET keys_to_remove == {k \in DOMAIN orders : t - orders[k] > ORDER_TIMEOUT_S} IN
    [keys_to_remove |-> keys_to_remove,
     pending_orders |-> [k \in (DOMAIN orders) \ keys_to_remove |-> orders[k]]]

\* the end of an iteration: one critical alert per timed-out key
Sweep(orders) ==
    LET swept == timeout_sweep(orders, now') IN
    /\ pending_orders' = swept.pending_orders
    /\ order_alerts' = [k \in DOMAIN order_alerts |->
                            IF k \in swept.keys_to_remove
                            THEN order_alerts[k] + 1 ELSE order_alerts[k]]

\* the symbol of the price messages the Market Data Publisher sends
PriceSymbol == "TLT"

\* a mutation of new_order: the order is built with the status PENDING
new_order_pending(key, symbol) == TradeOrder(key, symbol, "PENDING")

\* trade_order = {...}: the order built from a price message
new_order(key, symbol) == TradeOrder(key, symbol, "NEW")

\* an iteration that receives a price message
StrategyPrice(delay, price) ==
    /\ Advance(delay)
    /\ IF price < PriceThreshold /\ Len(published) < MaxOrders
       THEN /\ published' = Append(published, NewKey)
            /\ order_sent' = new_order(NewKey, PriceSymbol)
            /\ Sweep([k \in (DOMAIN pending_orders) \cup {NewKey} |->
                        IF k = NewKey THEN now' ELSE pending_orders[k]])
       ELSE /\ price >= PriceThreshold
            /\ published' = published
            /\ order_sent' = order_sent
            /\ Sweep(pending_orders)
    /\ strategy_received' = [topic |-> "PRICE.", value |-> price]
    /\ UNCHANGED <<confirmed, confirmations_read>>
    /\ UNCHANGED not_strategy_vars

\* an iteration that receives the confirmation of `key`
Confirmation(delay, key) ==
    /\ Advance(delay)
    /\ LET handled == on_confirmation(pending_orders, key) IN
        /\ confirmed' = IF handled.matched THEN confirmed \cup {key} ELSE confirmed
        /\ Sweep(handled.pending_orders)
    /\ strategy_received' = [topic |-> "TRADE_CONFIRMATION", value |-> key]
    /\ UNCHANGED <<published, order_sent>>
    /\ UNCHANGED not_strategy_vars

\* an iteration that receives a confirmation message, whoever sent it
StrategyConfirmation(delay, key) ==
    /\ key <= Len(published)
    /\ Confirmation(delay, key)
    /\ UNCHANGED confirmations_read

\* an iteration whose poll times out
StrategyIdle(delay) ==
    /\ Advance(delay)
    /\ Sweep(pending_orders)
    /\ strategy_received' = NoMessage
    /\ UNCHANGED <<published, confirmed, confirmations_read, order_sent>>
    /\ UNCHANGED not_strategy_vars

StrategyNext ==
    \/ \E delay \in StrategyDelays, price \in Prices : StrategyPrice(delay, price)
    \/ \E delay \in StrategyDelays, key \in ConfirmationKeys :
            StrategyConfirmation(delay, key)
    \/ \E delay \in StrategyDelays : StrategyIdle(delay)

---------------------------------------------------------------------------
(* Bus Relay: proxy.py.  A message is the list of its frames, <<topic,
   payload>>; a topic is the list of its parts, so that a filter is a prefix.
   The XSUB and XPUB sockets are the library's: the frontend queues what each
   publisher sends in order and hands out the head of one publisher's queue;
   the backend gives a message to every subscriber whose filter is a prefix of
   its topic, and queues the subscription frames for the relay to read. *)

Publishers == {"market_data", "execution"}

\* the topics a publisher sends: its data topic and its heartbeat
PublisherTopics ==
    [market_data |-> {<<"PRICE.", "TLT">>, <<"HEARTBEAT.", "MARKET_DATA">>},
     execution   |-> {<<"TRADE_CONFIRMATION">>, <<"HEARTBEAT.", "EXECUTION">>}]

\* the Health Monitor's filter, and a subscriber that takes every topic
Subscribers == {"healthcheck", "tap"}
SubscriberFilter == [healthcheck |-> <<"HEARTBEAT.">>, tap |-> <<>>]

Topics == UNION {PublisherTopics[p] : p \in Publishers}

\* topic.startswith(filter)
Matches(filter, topic) ==
    /\ Len(filter) <= Len(topic)
    /\ SubSeq(topic, 1, Len(filter)) = filter

NoMessageForwarded == <<>>

\* number of messages sent so far, by all publishers
RECURSIVE TotalSent(_)
TotalSent(publishers) ==
    IF publishers = {} THEN 0
    ELSE LET publisher == CHOOSE x \in publishers : TRUE IN
         Len(sent[publisher]) + TotalSent(publishers \ {publisher})

\* a subscription frame of the subscriber's filter waits at the backend socket
FrameQueued(subscriber) ==
    \E i \in 1..Len(sub_frames) : sub_frames[i][2] = SubscriberFilter[subscriber]

not_relay_vars == <<exec_vars, clock_vars, strategy_vars, monitor_vars,
                    process_vars, store_vars>>

\* a mutation of relay_forward: only the first frame is sent
relay_forward_first_frame(message) == [i \in 1..1 |-> message[i]]

\* message = frontend.recv_multipart(); backend.send_multipart(message): the
\* frames that are sent, one per frame received, in the order received
relay_forward(message) == [i \in 1..Len(message) |-> message[i]]

\* the backend socket hands message to the subscribers it matches
Deliver(message) ==
    received' = [s \in Subscribers |->
                    IF s \in connected /\ Matches(SubscriberFilter[s], message[1])
                    THEN Append(received[s], message)
                    ELSE received[s]]

\* `if frontend in events`: one message is taken from the frontend socket and
\* sent on the backend socket
Frontend(publisher) ==
    /\ pipe[publisher] # <<>>
    /\ LET message == relay_forward(Head(pipe[publisher])) IN
        /\ last_forwarded' = message
        /\ Deliver(message)
    /\ pipe' = [pipe EXCEPT ![publisher] = Tail(pipe[publisher])]

\* `if backend in events`: one subscription frame, <<1, filter>> to subscribe
\* and <<0, filter>> to unsubscribe, is taken from the backend socket and sent
\* on the frontend socket, which passes it to the publishers
Backend ==
    /\ sub_frames # <<>>
    /\ LET message == Head(sub_frames) IN
        upstream' = IF message[1] = 1
                    THEN upstream \cup {message[2]}
                    ELSE upstream \ {message[2]}
    /\ sub_frames' = Tail(sub_frames)

\* main up to the loop: both sockets are bound
RelayStart ==
    /\ ~relay_up
    /\ relay_up' = TRUE
    /\ UNCHANGED <<sent, pipe, sub_frames, upstream, connected, received,
                   last_forwarded>>
    /\ UNCHANGED not_relay_vars

\* an iteration of the loop in which only the frontend socket is readable
RelayFrontend(publisher) ==
    /\ relay_up
    /\ sub_frames = <<>>
    /\ Frontend(publisher)
    /\ UNCHANGED <<relay_up, sent, sub_frames, upstream, connected>>
    /\ UNCHANGED not_relay_vars

\* an iteration of the loop in which only the backend socket is readable
RelayBackend ==
    /\ relay_up
    /\ \A publisher \in Publishers : pipe[publisher] = <<>>
    /\ Backend
    /\ UNCHANGED <<relay_up, sent, pipe, connected, received, last_forwarded>>
    /\ UNCHANGED not_relay_vars

\* an iteration of the loop in which both sockets are readable
RelayBoth(publisher) ==
    /\ relay_up
    /\ Frontend(publisher)
    /\ Backend
    /\ UNCHANGED <<relay_up, sent, connected>>
    /\ UNCHANGED not_relay_vars

\* the relay ends (a signal or an error, at any point of the loop, also
\* between recv_multipart and send_multipart): its sockets are closed, and
\* what they held, the message in hand included, is gone
RelayStop ==
    /\ relay_up
    /\ relay_up' = FALSE
    /\ pipe' = [publisher \in Publishers |-> <<>>]
    /\ sub_frames' = <<>>
    /\ upstream' = {}
    /\ connected' = {}
    /\ UNCHANGED <<sent, received, last_forwarded>>
    /\ UNCHANGED not_relay_vars

\* a publisher sends a message: send_multipart([topic, payload]).  The
\* payload names the publisher and counts its messages.  A topic that no
\* filter passed upstream matches is dropped by the publisher's own socket.
Publish(publisher, topic) ==
    /\ relay_up
    /\ topic \in PublisherTopics[publisher]
    /\ TotalSent(Publishers) < MaxMessages
    /\ \E filter \in upstream : Matches(filter, topic)
    /\ LET message == <<topic, <<publisher, Len(sent[publisher]) + 1>>>> IN
        /\ sent' = [sent EXCEPT ![publisher] = Append(sent[publisher], message)]
        /\ pipe' = [pipe EXCEPT ![publisher] = Append(pipe[publisher], message)]
    /\ UNCHANGED <<relay_up, sub_frames, upstream, connected, received,
                   last_forwarded>>
    /\ UNCHANGED not_relay_vars

\* a subscriber connects and its filter reaches the backend socket
SubscriberConnect(subscriber) ==
    /\ relay_up
    /\ subscriber \notin connected
    /\ ~FrameQueued(subscriber)
    /\ connected' = connected \cup {subscriber}
    /\ sub_frames' = Append(sub_frames, <<1, SubscriberFilter[subscriber]>>)
    /\ UNCHANGED <<relay_up, sent, pipe, upstream, received, last_forwarded>>
    /\ UNCHANGED not_relay_vars

\* a subscriber disconnects: the backend socket drops its filter
SubscriberDisconnect(subscriber) ==
    /\ relay_up
    /\ subscriber \in connected
    /\ ~FrameQueued(subscriber)
    /\ connected' = connected \ {subscriber}
    /\ sub_frames' = Append(sub_frames, <<0, SubscriberFilter[subscriber]>>)
    /\ UNCHANGED <<relay_up, sent, pipe, upstream, received, last_forwarded>>
    /\ UNCHANGED not_relay_vars

RelayNext ==
    \/ RelayStart
    \/ \E publisher \in Publishers : RelayFrontend(publisher)
    \/ RelayBackend
    \/ \E publisher \in Publishers : RelayBoth(publisher)
    \/ RelayStop
    \/ \E publisher \in Publishers, topic \in Topics : Publish(publisher, topic)
    \/ \E subscriber \in Subscribers : SubscriberConnect(subscriber)
    \/ \E subscriber \in Subscribers : SubscriberDisconnect(subscriber)

---------------------------------------------------------------------------
(* The life of each process: main() of proxy.py, market_data/service.py,
   strategy/service.py, execution/service.py and deploy/healthcheck.py, from
   the installation of the signal handlers to the end of the process.

   Positions: "down" (not started), "starting" (handlers installed, no socket
   yet; the Execution Service is in initialize_database), "query" (Execution
   Service: inside the try block of get_pending_trades), "recovering"
   (Execution Service: back in recover_pending_trades), "setup" (context and
   sockets created, `try` not yet entered), "loop" (inside `try: while True`),
   "exited" (main returned), "died" (an exception left main), "blocked"
   (context.term() waits for sockets that are still open). *)

Processes == {"proxy", "market_data", "strategy", "execution", "healthcheck"}

\* the sockets main creates from its context
Opened ==
    [proxy       |-> {"frontend", "backend"},
     market_data |-> {"publisher"},
     strategy    |-> {"subscriber", "publisher"},
     execution   |-> {"subscriber", "publisher"},
     healthcheck |-> {"subscriber"}]

\* the sockets the `finally` block of main closes before context.term()
ClosedInFinally ==
    [proxy       |-> {"frontend", "backend"},
     market_data |-> {"publisher"},
     strategy    |-> {"subscriber", "publisher"},
     execution   |-> {"subscriber", "publisher"},
     healthcheck |-> {}]

Running == {"starting", "query", "recovering", "setup", "loop"}

not_process_vars == <<exec_vars, clock_vars, strategy_vars, monitor_vars,
                      relay_vars, store_vars>>

\* the `finally` block: the sockets it names are closed, then context.term()
\* is called, which returns once no socket of the context is open
finally(process, sockets) ==
    LET left == sockets \ ClosedInFinally[process] IN
    [sockets |-> left,
     pc      |-> IF left = {} THEN "exited" ELSE "blocked"]

\* the process is started; main installs handle_shutdown_signal
ProcLaunch(process) ==
    /\ svc_pc[process] \in {"down", "exited", "died"}
    /\ svc_pc' = [svc_pc EXCEPT ![process] = "starting"]
    /\ svc_sockets' = [svc_sockets EXCEPT ![process] = {}]
    /\ svc_signalled' = [svc_signalled EXCEPT ![process] = FALSE]
    /\ UNCHANGED not_process_vars

\* Execution Service: initialize_database has returned and
\* get_pending_trades has entered its try block
ExecQueryStarts ==
    /\ svc_pc["execution"] = "starting"
    /\ svc_pc' = [svc_pc EXCEPT !["execution"] = "query"]
    /\ UNCHANGED <<svc_sockets, svc_signalled>>
    /\ UNCHANGED not_process_vars

\* Execution Service: get_pending_trades returns to recover_pending_trades
ExecQueryReturns ==
    /\ svc_pc["execution"] = "query"
    /\ svc_pc' = [svc_pc EXCEPT !["execution"] = "recovering"]
    /\ UNCHANGED <<svc_sockets, svc_signalled>>
    /\ UNCHANGED not_process_vars

\* the context and the sockets are created
ProcSetup(process) ==
    /\ svc_pc[process] = IF process = "execution" THEN "recovering" ELSE "starting"
    /\ svc_pc' = [svc_pc EXCEPT ![process] = "setup"]
    /\ svc_sockets' = [svc_sockets EXCEPT ![process] = Opened[process]]
    /\ UNCHANGED svc_signalled
    /\ UNCHANGED not_process_vars

\* main enters `try: while True`
ProcEnterLoop(process) ==
    /\ svc_pc[process] = "setup"
    /\ svc_pc' = [svc_pc EXCEPT ![process] = "loop"]
    /\ UNCHANGED <<svc_sockets, svc_signalled>>
    /\ UNCHANGED not_process_vars

\* SIGTERM or SIGINT is delivered: handle_shutdown_signal raises
\* GracefulShutdown, a subclass of Exception, at the point where main is.
\* In the loop it is caught by main, and the finally block runs.  Before the
\* `try` nothing catches it, except in the Execution Service: the `except
\* Exception` around its startup makes main return, and the `except
\* Exception` of get_pending_trades makes the query return None, after which
\* the service goes on.
ProcSignal(process) ==
    /\ svc_pc[process] \in Running
    /\ ~svc_signalled[process]
    /\ svc_signalled' = [svc_signalled EXCEPT ![process] = TRUE]
    /\ IF svc_pc[process] = "loop"
       THEN LET end == finally(process, svc_sockets[process]) IN
            /\ svc_pc' = [svc_pc EXCEPT ![process] = end.pc]
            /\ svc_sockets' = [svc_sockets EXCEPT ![process] = end.sockets]
       ELSE /\ svc_pc' = [svc_pc EXCEPT ![process] =
                    IF svc_pc[process] = "query" THEN "query"
                    ELSE IF process = "execution" /\ svc_pc[process] # "setup"
                    THEN "exited"
                    ELSE "died"]
            /\ UNCHANGED svc_sockets
    /\ UNCHANGED not_process_vars

\* an unexpected error in the loop: `except Exception`, then the finally block
ProcError(process) ==
    /\ svc_pc[process] = "loop"
    /\ LET end == finally(process, svc_sockets[process]) IN
        /\ svc_pc' = [svc_pc EXCEPT ![process] = end.pc]
        /\ svc_sockets' = [svc_sockets EXCEPT ![process] = end.sockets]
    /\ UNCHANGED svc_signalled
    /\ UNCHANGED not_process_vars

\* Execution Service: a store operation of the startup fails; main logs and
\* returns
ExecStartupError ==
    /\ svc_pc["execution"] \in {"starting", "recovering"}
    /\ svc_pc' = [svc_pc EXCEPT !["execution"] = "exited"]
    /\ UNCHANGED <<svc_sockets, svc_signalled>>
    /\ UNCHANGED not_process_vars

ProcessNext ==
    \/ \E process \in Processes : ProcLaunch(process)
    \/ ExecQueryStarts
    \/ ExecQueryReturns
    \/ \E process \in Processes : ProcSetup(process)
    \/ \E process \in Processes : ProcEnterLoop(process)
    \/ \E process \in Processes : ProcSignal(process)
    \/ \E process \in Processes : ProcError(process)
    \/ ExecStartupError

---------------------------------------------------------------------------
(* Two callers of record_trade, each on a connection of its own.  A call is
   "connected" once get_db_connection has returned, "inserted" once its INSERT
   has been executed and not yet committed, and "done" once it has returned.
   The UNIQUE index is the store's: an INSERT of a key that a committed row
   carries is rejected; an INSERT of a key that another open transaction has
   inserted waits for that transaction to end. *)

Callers == {1, 2}

not_store_vars == <<exec_pc, pending_trades, trade_order, confirmations,
                    deliveries, db_call, startup_fault, recovery_start,
                    interrupted, clock_vars, strategy_vars, monitor_vars,
                    relay_vars, process_vars>>

\* the keys that open transactions have inserted
InFlight(pcs, keys) == {keys[c] : c \in {x \in Callers : pcs[x] = "inserted"}}

\* a mutation of insert_outcome: the key is looked up among the committed
\* rows and the INSERT is then made without the constraint
insert_outcome_read_then_check(db, in_flight, key) ==
    IF UniqueViolation(db, key) THEN "UniqueViolation" ELSE "inserted"

\* cur.execute(insert_sql, ...) under the UNIQUE constraint of the table
insert_outcome(db, in_flight, key) ==
    IF UniqueViolation(db, key) THEN "UniqueViolation"
    ELSE IF key \in in_flight THEN "waits"
    ELSE "inserted"

\* record_trade is called with a complete order; the connection is opened
StoreCall(caller, key) ==
    /\ call_pc[caller] \in {"idle", "done"}
    /\ call_pc' = [call_pc EXCEPT ![caller] = "connected"]
    /\ call_key' = [call_key EXCEPT ![caller] = key]
    /\ call_ret' = [call_ret EXCEPT ![caller] = "none"]
    /\ raced' = IF \E other \in Callers \ {caller} :
                    /\ call_pc[other] \in {"connected", "inserted"}
                    /\ call_key[other] = key
                THEN raced \cup {key} ELSE raced
    /\ UNCHANGED <<trades, inserts>>
    /\ UNCHANGED not_store_vars

\* the INSERT is executed; on UniqueViolation the call rolls back and
\* returns False
StoreInsert(caller) ==
    /\ call_pc[caller] = "connected"
    /\ LET outcome == insert_outcome(trades, InFlight(call_pc, call_key),
                                     call_key[caller]) IN
        /\ outcome # "waits"
        /\ call_pc' = [call_pc EXCEPT ![caller] =
                IF outcome = "inserted" THEN "inserted" ELSE "done"]
        /\ call_ret' = [call_ret EXCEPT ![caller] =
                IF outcome = "inserted" THEN "none" ELSE "False"]
    /\ UNCHANGED <<trades, call_key, inserts, raced>>
    /\ UNCHANGED not_store_vars

\* conn.commit(): the row is in the table, the call returns True
StoreCommit(caller) ==
    /\ call_pc[caller] = "inserted"
    /\ trades' = Append(trades,
            Row(TradeOrder(call_key[caller], "TLT", "PENDING")))
    /\ call_pc' = [call_pc EXCEPT ![caller] = "done"]
    /\ call_ret' = [call_ret EXCEPT ![caller] = "True"]
    /\ inserts' = [inserts EXCEPT ![call_key[caller]] = @ + 1]
    /\ UNCHANGED <<call_key, raced>>
    /\ UNCHANGED not_store_vars

\* another error (the connection is lost, the statement fails): the call
\* rolls back and raises
StoreFault(caller) ==
    /\ call_pc[caller] \in {"connected", "inserted"}
    /\ call_pc' = [call_pc EXCEPT ![caller] = "done"]
    /\ call_ret' = [call_ret EXCEPT ![caller] = "raise"]
    /\ UNCHANGED <<trades, call_key, inserts, raced>>
    /\ UNCHANGED not_store_vars

StoreNext ==
    \/ \E caller \in Callers, key \in Keys : StoreCall(caller, key)
    \/ \E caller \in Callers : StoreInsert(caller)
    \/ \E caller \in Callers : StoreCommit(caller)
    \/ \E caller \in Callers : StoreFault(caller)

---------------------------------------------------------------------------
(* Health Monitor: deploy/healthcheck.py *)

HEARTBEAT_INTERVAL_S == 15
STALE_THRESHOLD_S == HEARTBEAT_INTERVAL_S * 3

\* the keys of last_seen, in the order the check visits them
Tracked == <<"market_data", "strategy", "execution">>
Services == {Tracked[i] : i \in 1..Len(Tracked)}

\* data.get('service') of a received heartbeat
HeartbeatNames == Services \cup {"unknown"}

\* time that passes in one iteration of the loop
MonitorDelays == {0, 1, STALE_THRESHOLD_S}

not_monitor_vars == <<exec_vars, strategy_vars, relay_vars, process_vars, store_vars>>

\* a mutation of Stale: an entry that is exactly the threshold old is stale
Stale_inclusive(seen, t) ==
    SelectSeq(Tracked, LAMBDA s : t - seen[s] >= STALE_THRESHOLD_S)

\* the tracked services the check finds stale at time t, in visiting order
Stale(seen, t) ==
    SelectSeq(Tracked, LAMBDA s : t - seen[s] > STALE_THRESHOLD_S)

\* a mutation of staleness_check: an alerted entry is not reset
staleness_check_no_reset(seen, t) ==
    [alerts    |-> [i \in 1..Len(Stale(seen, t)) |-> <<Stale(seen, t)[i], t>>],
     last_seen |-> seen]

\* the check for stale services at the end of every iteration
staleness_check(seen, t) ==
    [alerts    |-> [i \in 1..Len(Stale(seen, t)) |-> <<Stale(seen, t)[i], t>>],
     last_seen |-> [s \in DOMAIN seen |->
                        IF t - seen[s] > STALE_THRESHOLD_S THEN t ELSE seen[s]]]

Check(seen) ==
    LET checked == staleness_check(seen, now') IN
    /\ stale_alerts' = stale_alerts \o checked.alerts
    /\ last_seen' = checked.last_seen

\* a mutation of on_heartbeat: a service that is not tracked gets an entry
on_heartbeat_tracks_all(seen, service_name, t) ==
    [s \in (DOMAIN seen) \cup {service_name} |->
        IF s = service_name THEN t ELSE seen[s]]

\* the heartbeat branch: service_name = data.get('service'); the entry of a
\* tracked service gets the time of receipt, any other name is logged
on_heartbeat(seen, service_name, t) ==
    IF service_name \in DOMAIN seen
    THEN [seen EXCEPT ![service_name] = t]
    ELSE seen

\* an iteration that receives a heartbeat
MonitorHeartbeat(delay, service_name) ==
    /\ Advance(delay)
    /\ heartbeat_from' = service_name
    /\ Check(on_heartbeat(last_seen, service_name, now'))
    /\ heard_at' = IF service_name \in DOMAIN heard_at
                   THEN [heard_at EXCEPT ![service_name] = now']
                   ELSE heard_at
    /\ UNCHANGED not_monitor_vars

\* an iteration whose poll times out
MonitorIdle(delay) ==
    /\ Advance(delay)
    /\ heartbeat_from' = "none"
    /\ Check(last_seen)
    /\ UNCHANGED heard_at
    /\ UNCHANGED not_monitor_vars

MonitorNext ==
    \/ \E delay \in MonitorDelays, service_name \in HeartbeatNames :
            MonitorHeartbeat(delay, service_name)
    \/ \E delay \in MonitorDelays : MonitorIdle(delay)

---------------------------------------------------------------------------
(* Initial state and specifications *)

Init ==
    /\ trades = <<>>
    /\ exec_pc = "stopped"
    /\ pending_trades = <<>>
    /\ trade_order = NoOrder
    /\ confirmations = <<>>
    /\ deliveries = 0
    /\ db_call = NoCall
    /\ startup_fault = FALSE
    /\ recovery_start = <<>>
    /\ interrupted = {}
    /\ now = 0
    /\ ticks = 0
    /\ pending_orders = NoPendingOrders
    /\ published = <<>>
    /\ order_alerts = [k \in 1..MaxOrders |-> 0]
    /\ confirmed = {}
    /\ strategy_received = NoMessage
    /\ confirmations_read = 0
    /\ order_sent = NoOrder
    /\ last_seen = [s \in Services |-> now]
    /\ stale_alerts = <<>>
    /\ heartbeat_from = "none"
    /\ heard_at = [s \in Services |-> now]
    /\ relay_up = FALSE
    /\ sent = [publisher \in Publishers |-> <<>>]
    /\ pipe = [publisher \in Publishers |-> <<>>]
    /\ sub_frames = <<>>
    /\ upstream = {}
    /\ connected = {}
    /\ received = [subscriber \in Subscribers |-> <<>>]
    /\ last_forwarded = NoMessageForwarded
    /\ svc_pc = [process \in Processes |-> "down"]
    /\ svc_sockets = [process \in Processes |-> {}]
    /\ svc_signalled = [process \in Processes |-> FALSE]
    /\ call_pc = [caller \in Callers |-> "idle"]
    /\ call_key = [caller \in Callers |-> 1]
    /\ call_ret = [caller \in Callers |-> "none"]
    /\ inserts = [key \in Keys |-> 0]
    /\ raced = {}

Next == ExecNext

Spec == Init /\ [][Next]_vars

StrategySpec == Init /\ [][StrategyNext]_vars

MonitorSpec == Init /\ [][MonitorNext]_vars

RelaySpec == Init /\ [][RelayNext]_vars

ProcessSpec == Init /\ [][ProcessNext]_vars

StoreSpec == Init /\ [][StoreNext]_vars

---------------------------------------------------------------------------
(* The Strategy Engine and the Execution Service end to end.  The bus hands
   every published order to the Execution Service and every published
   confirmation to the Strategy Engine, once and in the order of publication;
   no store operation fails and no process ends. *)

\* the Execution Service receives the next order the Strategy Engine published
BusOrder ==
    /\ deliveries < Len(published)
    /\ ExecReceive(TradeOrder(published[deliveries + 1], PriceSymbol, "NEW"), FALSE)

\* the Strategy Engine receives the next confirmation the Execution Service
\* published
BusConfirmation(delay) ==
    /\ confirmations_read < Len(confirmations)
    /\ Confirmation(delay, confirmations[confirmations_read + 1].idempotency_key)
    /\ confirmations_read' = confirmations_read + 1

ExecRuns ==
    \/ ExecStart(FALSE)
    \/ RecoverQuery(FALSE)
    \/ BusOrder
    \/ ExecUpdate(FALSE)
    \/ ExecPublish

EndToEndNext ==
    \/ ExecStart(FALSE)
    \/ RecoverQuery(FALSE)
    \/ BusOrder
    \/ ExecUpdate(FALSE)
    \/ ExecPublish
    \/ \E delay \in StrategyDelays, price \in Prices : StrategyPrice(delay, price)
    \/ \E delay \in StrategyDelays : BusConfirmation(delay)
    \/ \E delay \in StrategyDelays : StrategyIdle(delay)

\* both loops keep running: a step of the Execution Service that can be taken
\* is taken, and a confirmation waiting on the bus is received
EndToEndSpec ==
    /\ Init
    /\ [][EndToEndNext]_vars
    /\ WF_vars(ExecRuns)
    /\ WF_vars(\E delay \in StrategyDelays : BusConfirmation(delay))

---------------------------------------------------------------------------
(* The Strategy Engine and an Execution Service that is stopped at any point
   and started again; the store answers every call.  The bus hands the Execution Service any order
   the Strategy Engine has published, at any time and any number of times: an
   order published while the service is down is not delivered at all, and an
   order can be delivered again after a restart. *)

\* the iterations of the Strategy Engine take no time or one timeout
RecoveryDelays == {0, ORDER_TIMEOUT_S}

\* the prices that signal a trade
SignalPrices == {price \in Prices : price < PriceThreshold}

BusDeliver(i) ==
    /\ i <= Len(published)
    /\ ExecReceive(TradeOrder(published[i], PriceSymbol, "NEW"), FALSE)

RecoveryNext ==
    \/ ExecStart(FALSE)
    \/ RecoverQuery(FALSE)
    \/ RecoverUpdate(FALSE)
    \/ \E i \in 1..MaxOrders : BusDeliver(i)
    \/ ExecUpdate(FALSE)
    \/ ExecPublish
    \/ ExecCrash
    \/ \E delay \in RecoveryDelays, price \in SignalPrices :
            StrategyPrice(delay, price)
    \/ \E delay \in RecoveryDelays : BusConfirmation(delay)
    \/ \E delay \in RecoveryDelays : StrategyIdle(delay)

RecoverySpec == Init /\ [][RecoveryNext]_vars

---------------------------------------------------------------------------
(* Properties of the Execution Service and the Trade Store, under Spec *)

HasKey(db, key) == \E i \in 1..Len(db) : db[i].idempotency_key = key
Terminal == {"FILLED", "FAILED_RECOVERED"}
ConfirmationsOf(key) ==
    {i \in 1..Len(confirmations) : confirmations[i].idempotency_key = key}

\* the step is a call of record_trade with every required field present
RecordTradeCall ==
    /\ deliveries' = deliveries + 1
    /\ required_keys \subseteq DOMAIN db_call'.arg

\* C1: a record_trade call whose key is not yet in the table returns True and
\* adds exactly one row, with that key; a call whose key is already in the
\* table returns False, does not raise, and leaves every row unchanged.  (A
\* call that meets a persistence error other than the duplicate key raises,
\* as record_trade documents, and leaves the table unchanged.)
C1_Idempotency ==
    [][RecordTradeCall =>
        LET key == db_call'.arg["idempotency_key"] IN
        IF HasKey(trades, key)
        THEN /\ trades' = trades
             /\ db_call'.ret # "True"
             /\ (~db_call'.fault => db_call'.ret = "False")
        ELSE IF db_call'.fault
        THEN /\ trades' = trades
             /\ db_call'.ret = "raise"
        ELSE /\ db_call'.ret = "True"
             /\ Len(trades') = Len(trades) + 1
             /\ SubSeq(trades', 1, Len(trades)) = trades
             /\ trades'[Len(trades')].idempotency_key = key
    ]_vars

\* a second call with a key already stored has been rejected
C1_Witness ==
    /\ db_call.op = "record_trade"
    /\ db_call.ret = "False"
    /\ ~db_call.fault
    /\ required_keys \subseteq DOMAIN db_call.arg
    /\ HasKey(trades, db_call.arg["idempotency_key"])
    /\ deliveries >= 2

\* C2: in every reachable state the trades table holds at most one record per
\* idempotency_key.
C2_UniqueKey ==
    \A i, j \in 1..Len(trades) :
        trades[i].idempotency_key = trades[j].idempotency_key => i = j

\* an order is delivered again after a crash and a recovery, and is rejected
C2_Witness ==
    /\ db_call.op = "record_trade"
    /\ db_call.ret = "False"
    /\ required_keys \subseteq DOMAIN db_call.arg
    /\ \E i \in 1..Len(trades) :
        /\ trades[i].idempotency_key = db_call.arg["idempotency_key"]
        /\ trades[i].status = "FAILED_RECOVERED"
    /\ Len(trades) = MaxKeys

\* the step on which recover_pending_trades returns to main normally
RecoveryFinishes == exec_pc \in {"recover", "recovering"} /\ exec_pc' = "loop"

Recovered(row) ==
    IF row.status = "PENDING" THEN [row EXCEPT !.status = "FAILED_RECOVERED"] ELSE row

\* C3: when the recovery routine finishes, every record that was PENDING when
\* it started is FAILED_RECOVERED and every other record is as it was.
C3_RecoveryCompleteness ==
    [][RecoveryFinishes =>
        /\ Len(trades') = Len(recovery_start')
        /\ \A i \in 1..Len(trades') : trades'[i] = Recovered(recovery_start'[i])
    ]_vars

\* C4: if a Trade Store operation failed during this instance's startup, the
\* instance is not in its message loop and is processing no order.
C4_FatalAtStartup == startup_fault => exec_pc \notin LoopPcs

\* C5: whenever an instance waits in its message loop for the next message,
\* no record is PENDING.
C5_NoPendingInLoop ==
    exec_pc = "loop" => \A i \in 1..Len(trades) : trades[i].status # "PENDING"

\* C6: an order whose insertion reports a duplicate leads to no confirmation
\* and changes no record; at most one confirmation is ever published per key.
C6_DuplicateDiscarded ==
    /\ [](\A key \in Keys : Cardinality(ConfirmationsOf(key)) <= 1)
    /\ [][RecordTradeCall /\ db_call'.ret = "False" =>
            /\ confirmations' = confirmations
            /\ trades' = trades
            /\ exec_pc' = "loop"
       ]_vars

\* a confirmed order has been delivered again and discarded
C6_Witness ==
    /\ db_call.op = "record_trade"
    /\ db_call.ret = "False"
    /\ required_keys \subseteq DOMAIN db_call.arg
    /\ ConfirmationsOf(db_call.arg["idempotency_key"]) # {}
    /\ exec_pc = "loop"

\* C7: at the moment a confirmation for a key is published, the record of that
\* key exists and its status is the status the confirmation carries; the
\* record was inserted as PENDING before.
C7_ConfirmAfterUpdate ==
    /\ [][confirmations' # confirmations =>
            LET c == confirmations'[Len(confirmations')] IN
            /\ Len(confirmations') = Len(confirmations) + 1
            /\ \E i \in 1..Len(trades) :
                /\ trades[i].idempotency_key = c.idempotency_key
                /\ trades[i].status = c.status
                /\ trades'[i] = trades[i]
       ]_vars
    /\ [][Len(trades') > Len(trades) =>
            trades'[Len(trades')].status = "PENDING"]_vars

\* a confirmation has just been published for a stored record
C7_Witness ==
    /\ exec_pc = "loop"
    /\ confirmations # <<>>
    /\ db_call.op = "update_trade_status"
    /\ \E i \in 1..Len(trades) :
        /\ trades[i].idempotency_key =
              confirmations[Len(confirmations)].idempotency_key
        /\ trades[i].status = "FILLED"

\* C8: a record whose status is FILLED or FAILED_RECOVERED never changes
\* again, and a step of the recovery sweep changes only records that are
\* PENDING.
C8_TerminalStatus ==
    [][/\ \A i \in 1..Len(trades) :
            trades[i].status \in Terminal =>
                i <= Len(trades') /\ trades'[i] = trades[i]
       /\ exec_pc \in {"recover", "recovering"} =>
            /\ Len(trades') = Len(trades)
            /\ \A i \in 1..Len(trades) :
                trades'[i] # trades[i] => trades[i].status = "PENDING"
    ]_vars

\* a recovery sweep has run over a table that holds a FILLED record and has
\* resolved a PENDING one
C8_Witness ==
    /\ exec_pc = "loop"
    /\ db_call.op = "update_trade_status"
    /\ db_call.arg = NoOrder
    /\ \E i, j \in 1..Len(trades) :
        /\ trades[i].status = "FILLED"
        /\ trades[j].status = "FAILED_RECOVERED"

\* the step is a record_trade call of the message loop that raises
InsertError ==
    /\ deliveries' = deliveries + 1
    /\ db_call'.ret = "raise"

\* the step is the update_trade_status call of the message loop, and raises
UpdateError ==
    /\ exec_pc = "broker"
    /\ db_call'.op = "update_trade_status"
    /\ db_call'.ret = "raise"

DuplicateDiscard == RecordTradeCall /\ db_call'.ret = "False"

\* C16 as stated: whenever an order is discarded as a duplicate, a
\* confirmation for its key has been published before.
C16_OriginalConfirmed ==
    [][DuplicateDiscard =>
        ConfirmationsOf(db_call'.arg["idempotency_key"]) # {}]_vars

\* C16, amended: whenever an order is discarded as a duplicate, a record of
\* its key is stored, and a confirmation for the key has been published
\* before unless the instance that inserted the record ended (crash, signal
\* or persistence error) between the insert and the publication.
C16_DuplicateAfterConfirmation ==
    [][DuplicateDiscard =>
        LET key == db_call'.arg["idempotency_key"] IN
        /\ HasKey(trades, key)
        /\ key \notin interrupted => ConfirmationsOf(key) # {}
        /\ key \in interrupted => ConfirmationsOf(key) = {}
    ]_vars

\* after the crash of an instance that was processing another order, an order
\* confirmed before is delivered again and discarded
C16_Witness ==
    /\ db_call.op = "record_trade"
    /\ db_call.ret = "False"
    /\ required_keys \subseteq DOMAIN db_call.arg
    /\ db_call.arg["idempotency_key"] \notin interrupted
    /\ ConfirmationsOf(db_call.arg["idempotency_key"]) # {}
    /\ interrupted # {}

\* C17: an instance enters its message loop only by the return of its
\* recovery routine, with no fetched record left to update; an order is
\* received and a record inserted only by an instance that is in its message
\* loop.
C17_RecoveryBeforeOrders ==
    /\ [][(exec_pc' \in LoopPcs /\ exec_pc \notin LoopPcs) =>
            RecoveryFinishes /\ pending_trades' = <<>>]_vars
    /\ [][(deliveries' # deliveries \/ Len(trades') > Len(trades)) =>
            exec_pc = "loop"]_vars
    /\ [](exec_pc \in LoopPcs => pending_trades = <<>>)

\* a restarted instance has resolved a PENDING record and has then inserted
\* its first order
C17_Witness ==
    /\ exec_pc = "broker"
    /\ db_call.op = "record_trade"
    /\ db_call.ret = "True"
    /\ Len(trades) >= 2
    /\ trades[1].status = "FAILED_RECOVERED"
    /\ trades[Len(trades)].status = "PENDING"

StoredStatuses == {"PENDING", "FILLED", "FAILED_RECOVERED"}

\* C18: a record is created only by record_trade and only with status
\* PENDING, whatever status the order payload carries; the status of every
\* stored record is PENDING, FILLED or FAILED_RECOVERED, never NEW.
C18_StatusDomain ==
    /\ [](\A i \in 1..Len(trades) : trades[i].status \in StoredStatuses)
    /\ [][Len(trades') > Len(trades) =>
            /\ db_call'.op = "record_trade"
            /\ db_call'.ret = "True"
            /\ Len(trades') = Len(trades) + 1
            /\ trades'[Len(trades')].status = "PENDING"
       ]_vars

\* an order whose payload carried the status FILLED has been inserted, as
\* PENDING
C18_Witness ==
    /\ db_call.op = "record_trade"
    /\ db_call.ret = "True"
    /\ "status" \in DOMAIN db_call.msg
    /\ db_call.msg["status"] = "FILLED"
    /\ trades[Len(trades)].idempotency_key = db_call.arg["idempotency_key"]
    /\ trades[Len(trades)].status = "PENDING"

---------------------------------------------------------------------------
(* Properties of the Strategy Engine, under StrategySpec *)

Occurrences(seq, x) == Cardinality({i \in 1..Len(seq) : seq[i] = x})

\* key is in the map when the iteration starts, is older than the timeout when
\* the sweep runs, and no confirmation for it is processed in the iteration
TimesOut(key) ==
    /\ key \in DOMAIN pending_orders
    /\ now' - pending_orders[key] > ORDER_TIMEOUT_S
    /\ key \notin confirmed'

\* C9: a pending order older than ORDER_TIMEOUT_S whose confirmation has not
\* been processed is removed by the next sweep, which logs one alert for its
\* key; no key is alerted twice, no entry older than the timeout survives a
\* sweep, and an alerted key is published once and never tracked again.
C9_OrderTimeout ==
    /\ [][\A key \in 1..MaxOrders :
            /\ TimesOut(key) =>
                /\ key \notin DOMAIN pending_orders'
                /\ order_alerts'[key] = order_alerts[key] + 1
            /\ order_alerts'[key] # order_alerts[key] => TimesOut(key)
       ]_vars
    /\ [](\A key \in 1..MaxOrders :
            /\ order_alerts[key] <= 1
            /\ key \in DOMAIN pending_orders =>
                now - pending_orders[key] <= ORDER_TIMEOUT_S
            /\ order_alerts[key] = 1 =>
                /\ key \notin DOMAIN pending_orders
                /\ key \notin confirmed
                /\ Occurrences(published, key) = 1)

\* an order has timed out with one alert, and the engine has gone on to
\* publish another order
C9_Witness ==
    /\ order_alerts[1] = 1
    /\ 1 \notin DOMAIN pending_orders
    /\ Len(published) >= 2
    /\ 2 \in DOMAIN pending_orders

\* the iteration receives a confirmation message
ConfirmationStep == strategy_received'.topic = "TRADE_CONFIRMATION"

\* the entry of key is older than the timeout when the iteration's sweep runs
Overdue(key) == now' - pending_orders[key] > ORDER_TIMEOUT_S

ByConfirmation(key) == key \in confirmed
ByTimeout(key) == order_alerts[key] >= 1

\* C20: a published key is in exactly one of three conditions: tracked in the
\* map, removed by its confirmation, removed by the timeout sweep with one
\* alert.  A key that has left the map never enters it again, and nothing
\* that is received later (a late or repeated confirmation) changes how it
\* left or raises an alert for it.
C20_SingleExit ==
    /\ [](\A key \in 1..MaxOrders :
            /\ Occurrences(published, key) <= 1
            /\ order_alerts[key] <= 1
            /\ ~(ByConfirmation(key) /\ ByTimeout(key))
            /\ key \in DOMAIN pending_orders =>
                    ~ByConfirmation(key) /\ ~ByTimeout(key)
            /\ Occurrences(published, key) = 1 =>
                    \/ key \in DOMAIN pending_orders
                    \/ ByConfirmation(key)
                    \/ ByTimeout(key)
            /\ Occurrences(published, key) = 0 =>
                    /\ key \notin DOMAIN pending_orders
                    /\ ~ByConfirmation(key) /\ ~ByTimeout(key))
    /\ [][\A key \in 1..MaxOrders :
            (Occurrences(published, key) = 1 /\ key \notin DOMAIN pending_orders) =>
                /\ key \notin DOMAIN pending_orders'
                /\ ByConfirmation(key)' = ByConfirmation(key)
                /\ order_alerts'[key] = order_alerts[key]
       ]_vars

\* the first order timed out and its confirmation arrived afterwards; the
\* second order was removed by its confirmation
C20_Witness ==
    /\ strategy_received = [topic |-> "TRADE_CONFIRMATION", value |-> 1]
    /\ order_alerts[1] = 1
    /\ 1 \notin confirmed
    /\ 2 \in confirmed
    /\ order_alerts[2] = 0
    /\ pending_orders = NoPendingOrders

\* the keys of the orders published so far
PublishedKeys == {published[i] : i \in 1..Len(published)}

\* C21: an iteration that receives a price below the threshold publishes one
\* order, with status NEW and a key no earlier order carries, and puts the key
\* in the map with the time of sending; no other iteration publishes.  The
\* keys of the map are always keys of published orders.
C21_OrderPublication ==
    /\ [][published' # published =>
            /\ strategy_received'.topic = "PRICE."
            /\ strategy_received'.value < PriceThreshold
            /\ Len(published') = Len(published) + 1
            /\ SubSeq(published', 1, Len(published)) = published
            /\ LET key == published'[Len(published')] IN
                /\ key \notin PublishedKeys
                /\ order_sent'["idempotency_key"] = key
                /\ order_sent'["status"] = "NEW"
                /\ key \in DOMAIN pending_orders'
                /\ pending_orders'[key] = now'
       ]_vars
    /\ [][(published' = published /\ Len(published) < MaxOrders) =>
            ~(strategy_received'.topic = "PRICE."
                /\ strategy_received'.value < PriceThreshold)]_vars
    /\ [](DOMAIN pending_orders \subseteq PublishedKeys)

\* two orders have been published with different keys, both with status NEW;
\* the second is tracked in the map
C21_Witness ==
    /\ Len(published) = 2
    /\ published[1] # published[2]
    /\ order_sent # NoOrder
    /\ order_sent["status"] = "NEW"
    /\ order_sent["idempotency_key"] = published[2]
    /\ published[2] \in DOMAIN pending_orders

---------------------------------------------------------------------------
(* Properties of the services end to end, under EndToEndSpec *)

RecordsOf(key) == {i \in 1..Len(trades) : trades[i].idempotency_key = key}

\* the order of key has gone all the way: its record is FILLED, its one
\* confirmation says FILLED, and the key has left the Strategy Engine's map
Settled(key) ==
    /\ \E i \in RecordsOf(key) : trades[i].status = "FILLED"
    /\ Cardinality(ConfirmationsOf(key)) = 1
    /\ \A i \in ConfirmationsOf(key) : confirmations[i].status = "FILLED"
    /\ key \notin DOMAIN pending_orders
    /\ key \in confirmed \/ order_alerts[key] = 1

\* C12: with every message delivered and no process ending, every order the
\* Strategy Engine publishes (one per price below the threshold, with a key no
\* earlier order carries, tracked in the map from then on) eventually has one
\* record that is FILLED, one published confirmation with status FILLED, and
\* no entry in the map.  The record is inserted as PENDING and changes once,
\* to FILLED; the confirmation follows the FILLED record and the removal by
\* confirmation follows the confirmation.
C12_EndToEnd ==
    /\ \A key \in 1..MaxOrders :
            (Occurrences(published, key) = 1) ~> Settled(key)
    /\ [](\A key \in 1..MaxOrders :
            /\ Occurrences(published, key) <= 1
            /\ Cardinality(RecordsOf(key)) <= 1
            /\ Cardinality(ConfirmationsOf(key)) <= 1
            /\ RecordsOf(key) # {} => Occurrences(published, key) = 1
            /\ ConfirmationsOf(key) # {} =>
                    \E i \in RecordsOf(key) : trades[i].status = "FILLED"
            /\ key \in confirmed => ConfirmationsOf(key) # {})
    /\ [][published' # published =>
            /\ strategy_received'.topic = "PRICE."
            /\ strategy_received'.value < PriceThreshold
            /\ \E key \in 1..MaxOrders :
                /\ Occurrences(published, key) = 0
                /\ published' = Append(published, key)
                /\ key \in DOMAIN pending_orders'
       ]_vars
    /\ [][\A i \in 1..Len(trades') :
            IF i > Len(trades)
            THEN trades'[i].status = "PENDING"
            ELSE \/ trades'[i] = trades[i]
                 \/ /\ trades[i].status = "PENDING"
                    /\ trades'[i] = [trades[i] EXCEPT !.status = "FILLED"]
       ]_vars

\* both orders have been published, filled, confirmed and removed from the
\* map by their confirmations
C12_Witness ==
    /\ Len(published) = MaxOrders
    /\ \A key \in 1..MaxOrders : Settled(key) /\ key \in confirmed
    /\ confirmations_read = MaxOrders
    /\ exec_pc = "loop"

---------------------------------------------------------------------------
(* Properties of the Bus Relay, under RelaySpec *)

\* the relay sends a message on its backend socket
ForwardStep == last_forwarded' # last_forwarded

\* the publisher and the number that the payload frame of a message carries
SenderOf(message) == message[2][1]
NumberOf(message) == message[2][2]

\* C11: a message the relay sends on its backend socket is the message at the
\* head of one publisher's queue, frame for frame, and that step hands it to
\* every connected subscriber whose filter matches its topic and to no other;
\* nothing else changes what a subscriber has received.  Every message a
\* subscriber has received is, frame for frame, a message its publisher sent
\* and matches the subscriber's filter, and the messages of one publisher are
\* received in the order that publisher sent them.
C11_RelayTransparency ==
    /\ [][ForwardStep =>
            /\ \E publisher \in Publishers :
                /\ pipe[publisher] # <<>>
                /\ last_forwarded' = Head(pipe[publisher])
                /\ pipe'[publisher] = Tail(pipe[publisher])
            /\ \A subscriber \in Subscribers :
                received'[subscriber] =
                    IF /\ subscriber \in connected
                       /\ Matches(SubscriberFilter[subscriber], last_forwarded'[1])
                    THEN Append(received[subscriber], last_forwarded')
                    ELSE received[subscriber]
       ]_vars
    /\ [][received' # received => ForwardStep]_vars
    /\ [](\A subscriber \in Subscribers :
            \A i \in 1..Len(received[subscriber]) :
                LET message == received[subscriber][i] IN
                /\ Len(message) = 2
                /\ Matches(SubscriberFilter[subscriber], message[1])
                /\ NumberOf(message) <= Len(sent[SenderOf(message)])
                /\ sent[SenderOf(message)][NumberOf(message)] = message
                /\ \A j \in 1..Len(received[subscriber]) :
                    (i < j /\ SenderOf(received[subscriber][j]) = SenderOf(message))
                        => NumberOf(message) < NumberOf(received[subscriber][j]))

\* one subscriber has received two messages of one publisher, in order, and
\* the other subscriber has received the one of them that matches its filter
C11_Witness ==
    /\ Len(received["tap"]) >= 2
    /\ SenderOf(received["tap"][1]) = SenderOf(received["tap"][2])
    /\ received["tap"][1][1] # received["tap"][2][1]
    /\ Len(received["healthcheck"]) = 1
    /\ \E i \in 1..2 : received["tap"][i] = received["healthcheck"][1]

---------------------------------------------------------------------------
(* Properties of the processes, under ProcessSpec *)

\* C13: whenever a process has terminated its bus context, or is terminating
\* it, every bus socket the process created has been closed.
C13_ClosedBeforeTerm ==
    \A process \in Processes :
        svc_pc[process] \in {"exited", "blocked"} => svc_sockets[process] = {}

\* C14: a process to which a termination signal was delivered has left its
\* loop and ended: it is not running on, and it is not waiting in its
\* shutdown.
C14_SignalTerminates ==
    \A process \in Processes :
        svc_signalled[process] => svc_pc[process] \in {"exited", "died"}

---------------------------------------------------------------------------
(* Properties of the Health Monitor, under MonitorSpec *)

AlertsOf(log, service) == {i \in 1..Len(log) : log[i][1] = service}

\* C10: a tracked service whose last-seen time is more than STALE_THRESHOLD_S
\* old at a staleness check, no heartbeat from it having been processed, is
\* alerted once by that check and its last-seen time becomes the time of the
\* check; two alerts for one service are more than STALE_THRESHOLD_S apart,
\* and no entry older than the threshold survives a check.
C10_StalenessDebounce ==
    /\ [][\A service \in Services :
            /\ (now' - last_seen[service] > STALE_THRESHOLD_S
                    /\ heartbeat_from' # service) =>
                /\ Cardinality(AlertsOf(stale_alerts', service))
                        = Cardinality(AlertsOf(stale_alerts, service)) + 1
                /\ stale_alerts'[Len(stale_alerts')][2] = now'
                /\ last_seen'[service] = now'
            /\ AlertsOf(stale_alerts', service) # AlertsOf(stale_alerts, service) =>
                /\ now' - last_seen[service] > STALE_THRESHOLD_S
                /\ heartbeat_from' # service
       ]_vars
    /\ [](\A service \in Services :
            /\ now - last_seen[service] <= STALE_THRESHOLD_S
            /\ \A i, j \in AlertsOf(stale_alerts, service) :
                i < j => stale_alerts[j][2] - stale_alerts[i][2] > STALE_THRESHOLD_S)

\* C22: the table always has exactly the three tracked services.  A heartbeat
\* of a tracked service sets that service's entry to the time of receipt; an
\* entry changes in an iteration only if the heartbeat received is of its
\* service, or if the iteration's staleness check finds it older than the
\* threshold, alerts and resets it to the time of the check.  A heartbeat of
\* an unknown service changes no entry by itself and adds none.
C22_TableFrame ==
    /\ [](DOMAIN last_seen = Services)
    /\ [][\A service \in Services :
            /\ heartbeat_from' = service => last_seen'[service] = now'
            /\ last_seen'[service] # last_seen[service] =>
                \/ heartbeat_from' = service
                \/ /\ now' - last_seen[service] > STALE_THRESHOLD_S
                   /\ last_seen'[service] = now'
                   /\ AlertsOf(stale_alerts', service)
                        # AlertsOf(stale_alerts, service)
       ]_vars

\* a heartbeat of an unknown service has been processed after a heartbeat of
\* a tracked one: only the tracked service's entry differs from the seed
C22_Witness ==
    /\ heartbeat_from = "unknown"
    /\ stale_alerts = <<>>
    /\ last_seen["market_data"] > 0
    /\ last_seen["strategy"] = 0
    /\ last_seen["execution"] = 0
    /\ now > last_seen["market_data"]

\* the iteration's staleness check alerts service
Alerted(service) ==
    AlertsOf(stale_alerts', service) # AlertsOf(stale_alerts, service)

\* C27: a staleness check alerts a service only if the service's entry is
\* more than STALE_THRESHOLD_S older than the check, and the alert carries the
\* time of the check; the service's last processed heartbeat, and the
\* monitor's startup, are then more than STALE_THRESHOLD_S in the past.
C27_AlertOnlyWhenStale ==
    /\ [][\A service \in Services :
            Alerted(service) =>
                /\ now' - last_seen[service] > STALE_THRESHOLD_S
                /\ now' - heard_at'[service] > STALE_THRESHOLD_S
                /\ heartbeat_from' # service
                /\ stale_alerts'[Len(stale_alerts')][2] = now'
       ]_vars
    /\ [](\A i \in 1..Len(stale_alerts) :
            /\ stale_alerts[i][2] > STALE_THRESHOLD_S
            /\ stale_alerts[i][2] <= now)
    /\ [](\A service \in Services :
            /\ heard_at[service] <= last_seen[service]
            /\ last_seen[service] <= now)

\* a service whose heartbeat was processed has been alerted later, once the
\* heartbeat was more than the threshold old, while the others were alerted
\* earlier
C27_Witness ==
    /\ heard_at["strategy"] > 0
    /\ Cardinality(AlertsOf(stale_alerts, "strategy")) = 1
    /\ stale_alerts[Len(stale_alerts)] = <<"strategy", now>>
    /\ now - heard_at["strategy"] > STALE_THRESHOLD_S
    /\ Cardinality(AlertsOf(stale_alerts, "execution")) >= 1

\* a service has been alerted twice, more than the threshold apart, while
\* another one, whose heartbeat was processed, has been alerted once
C10_Witness ==
    /\ Cardinality(AlertsOf(stale_alerts, "strategy")) = 2
    /\ Cardinality(AlertsOf(stale_alerts, "execution")) = 1
    /\ heartbeat_from = "market_data"

---------------------------------------------------------------------------
\* the rows of the table that carry the key
RowsOf(db, key) == {i \in 1..Len(db) : db[i].idempotency_key = key}

\* C23: of the insert attempts that carry one idempotency_key over separate
\* connections, however they interleave, exactly one succeeds and the table
\* holds one row with the key; every other attempt that the store answers
\* is rejected as a duplicate.  The rejection is the INSERT's own outcome: it
\* is returned in the step that executes the INSERT, with the row of the
\* successful attempt committed, and success is returned by the commit.
C23_UniqueInsert ==
    /\ [](\A key \in Keys :
            /\ inserts[key] <= 1
            /\ Cardinality(RowsOf(trades, key)) = inserts[key])
    /\ [](\A caller \in Callers :
            call_ret[caller] \in {"True", "False"} =>
                /\ inserts[call_key[caller]] = 1
                /\ Cardinality(RowsOf(trades, call_key[caller])) = 1)
    /\ [](\A a, b \in Callers :
            (/\ a # b
             /\ call_key[a] = call_key[b]
             /\ call_ret[a] = "True") => call_ret[b] # "True")
    /\ [][\A caller \in Callers :
            /\ (call_ret'[caller] = "False" /\ call_ret[caller] # "False") =>
                    /\ call_pc[caller] = "connected"
                    /\ HasKey(trades, call_key[caller])
                    /\ trades' = trades
            /\ (call_ret'[caller] = "True" /\ call_ret[caller] # "True") =>
                    /\ call_pc[caller] = "inserted"
                    /\ ~HasKey(trades, call_key[caller])
                    /\ Len(trades') = Len(trades) + 1
       ]_vars

\* two attempts with one key were open at the same time; one has returned
\* True, the other False, and the table holds one row
C23_Witness ==
    /\ call_key[1] = call_key[2]
    /\ call_key[1] \in raced
    /\ call_ret[1] = "False"
    /\ call_ret[2] = "True"
    /\ Len(trades) = 1
    /\ inserts[call_key[1]] = 1

---------------------------------------------------------------------------
\* the key and the status of the update_trade_status call the step makes
UpdateTarget ==
    IF exec_pc = "broker"
    THEN <<trade_order["idempotency_key"], final_status>>
    ELSE IF exec_pc = "recovering"
    THEN <<Head(pending_trades).idempotency_key, "FAILED_RECOVERED">>
    ELSE <<0, "none">>

\* C24: a Trade Record, once inserted, is never deleted and keeps its
\* idempotency_key, symbol, trade_type and quantity; its status changes only
\* in a step that calls update_trade_status (after the broker call or in the
\* recovery sweep) with the key of that record, to the status of the call,
\* and every record with another key is left as it was.
C24_RecordFrame ==
    [][/\ Len(trades') >= Len(trades)
       /\ \A i \in 1..Len(trades) :
            /\ trades'[i].idempotency_key = trades[i].idempotency_key
            /\ trades'[i].symbol = trades[i].symbol
            /\ trades'[i].trade_type = trades[i].trade_type
            /\ trades'[i].quantity = trades[i].quantity
            /\ trades'[i].status # trades[i].status =>
                    /\ db_call'.op = "update_trade_status"
                    /\ UpdateTarget[1] = trades[i].idempotency_key
                    /\ trades'[i].status = UpdateTarget[2]
                    /\ Len(trades') = Len(trades)
      ]_vars

\* the recovery sweep has set the first record to FAILED_RECOVERED and the
\* update after the broker call has just set the second one to FILLED
C24_Witness ==
    /\ Len(trades) = 2
    /\ trades[1].status = "FAILED_RECOVERED"
    /\ trades[2].status = "FILLED"
    /\ trades[1].idempotency_key # trades[2].idempotency_key
    /\ db_call.op = "update_trade_status"
    /\ db_call.ret = "True"
    /\ exec_pc = "publish"

---------------------------------------------------------------------------
\* C25: when record_trade has returned False and the Execution Service has
\* discarded the order as a duplicate (the else-branch of main, which logs
\* the order's key and goes on), the Trade Store holds a record with that
\* order's idempotency_key.
C25_DuplicateMeansStored ==
    (/\ db_call.op = "record_trade"
     /\ db_call.ret = "False"
     /\ "idempotency_key" \in DOMAIN db_call.arg) =>
        HasKey(trades, db_call.arg["idempotency_key"])

\* the fields an order message must carry; status is assigned on receipt
OrderFields == required_keys \ {"status"}

\* C26: an order message without idempotency_key, symbol, trade_type or
\* quantity is discarded: the step that receives it creates no record,
\* publishes no confirmation and leaves the service in its message loop.
C26_IncompleteOrderDiscarded ==
    [][(/\ exec_pc = "loop"
        /\ deliveries' = deliveries + 1
        /\ ~(OrderFields \subseteq DOMAIN db_call'.msg)) =>
            /\ trades' = trades
            /\ confirmations' = confirmations
            /\ exec_pc' = "loop"
      ]_vars

---------------------------------------------------------------------------
\* the rows the recovery sweep has set to FAILED_RECOVERED
RecoveredRows(db) == {i \in 1..Len(db) : db[i].status = "FAILED_RECOVERED"}

\* C28: every confirmation the Execution Service publishes carries FILLED.
\* A record set to FAILED_RECOVERED stays FAILED_RECOVERED, and no
\* confirmation exists for its key, whatever is delivered after the restart:
\* a confirmation is published only for the record just set to FILLED.  The
\* Strategy Engine never takes such an order for confirmed, and its entry
\* leaves the Pending Order map only in an iteration whose sweep logs the
\* timeout alert of that key and whose message is not a confirmation of it.
C28_RecoveredNeverConfirmed ==
    /\ [](\A i \in 1..Len(confirmations) : confirmations[i].status = "FILLED")
    /\ [](\A i \in RecoveredRows(trades) :
            LET key == trades[i].idempotency_key IN
                /\ ConfirmationsOf(key) = {}
                /\ key \notin confirmed
                /\ key \notin DOMAIN pending_orders => order_alerts[key] >= 1)
    /\ [][/\ \A i \in RecoveredRows(trades) : i \in RecoveredRows(trades')
          /\ confirmations' # confirmations =>
                \E i \in 1..Len(trades) :
                    /\ trades[i].idempotency_key =
                            confirmations'[Len(confirmations')].idempotency_key
                    /\ trades[i].status = "FILLED"
          /\ \A i \in RecoveredRows(trades') :
                LET key == trades'[i].idempotency_key IN
                    (key \in DOMAIN pending_orders
                        /\ key \notin DOMAIN pending_orders') =>
                            /\ order_alerts'[key] = order_alerts[key] + 1
                            /\ strategy_received' #
                                [topic |-> "TRADE_CONFIRMATION", value |-> key]
       ]_vars

\* the order of key 1 was interrupted and set to FAILED_RECOVERED, was
\* delivered again after the restart and rejected, the order of key 2 was
\* filled and confirmed meanwhile, and the entry of key 1 has timed out
C28_Witness ==
    /\ Len(trades) = 2
    /\ trades[1].idempotency_key = 1
    /\ trades[1].status = "FAILED_RECOVERED"
    /\ trades[2].status = "FILLED"
    /\ db_call.op = "record_trade"
    /\ db_call.ret = "False"
    /\ db_call.arg["idempotency_key"] = 1
    /\ confirmed = {2}
    /\ 1 \notin DOMAIN pending_orders
    /\ order_alerts[1] = 1

====
